---- MODULE Spec2Model ----
(***************************************************************************)
(* Model of 2finetuned.ipynb: the notebook that fine-tunes a multi-label   *)
(* emotion classifier on two datasets in sequence and then runs inference  *)
(* on three sample sentences.  One action per code cell; the cells run in  *)
(* notebook order and a cell that raises stops the run.                    *)
(*                                                                         *)
(* Representation.  A numpy/torch vector is a function on 0..n-1, a Python *)
(* list is a sequence.  A float is an integer: label values are 0 and 1,   *)
(* probabilities are in millionths (0.5 is 500000).  A text is a record    *)
(* [s, n]: its string and the number of tokens the tokenizer cuts it into  *)
(* (special tokens not counted); a token id is modelled by the string of   *)
(* the text it comes from, the special tokens by "<s>", "</s>", "<pad>".   *)
(* A network (model weights) is the function it computes, from a text to a *)
(* vector of num_labels logits.                                            *)
(*                                                                         *)
(* What the notebook reads from outside (the two datasets, the pretrained  *)
(* weights, the weights each trainer.train() ends with) is held in the     *)
(* variable world, chosen in Init and never changed: a run varies one of   *)
(* these inputs around a default run.                                      *)
(***************************************************************************)
EXTENDS Integers, Sequences, FiniteSets, TLC

\* ------------------------------------------------------------- constants

\* num_labels = 28 (preprocess_function, custom dataset cell, from_pretrained).
num_labels == 28

\* max_length=128 of every tokenizer call.
max_length == 128

\* threshold = 0.5, in millionths.
threshold == 500000

\* The ordered list of category names the inference cell reports against.
emotion_labels ==
  << "admiration", "amusement", "anger", "annoyance", "approval", "caring",
     "confusion", "curiosity", "desire", "disappointment", "disapproval", "disgust",
     "embarrassment", "excitement", "fear", "gratitude", "grief", "joy", "love",
     "nervousness", "optimism", "pride", "realization", "relief", "remorse",
     "sadness", "surprise", "neutral" >>

\* The three sentences of the inference cell, with their token counts.
custom_input ==
  << [s |-> "I am feeling wonderful today!", n |-> 6],
     [s |-> "I am so annoyed and angry right now!", n |-> 9],
     [s |-> "I'm confused about what to do next.", n |-> 9] >>

\* ---------------------------------------------------------------- bounds

\* Integer class labels of dataset A range over -MaxLabel..MaxLabel.
MaxLabel == 30

\* The CSV dataset has between 1 and MaxClasses distinct sentiments.
MaxClasses == 30

\* Logits range over -MaxLogit..MaxLogit.
MaxLogit == 1

\* Scaled-down sizes of the two subsets (range(1000), range(500) in the source).
TrainSelect == 1
TestSelect == 1

\* Token counts of the texts of the datasets: short, exactly max_length with
\* the two special tokens, one more, and far more.
TokenCounts == {1, max_length - 2, max_length - 1, max_length + 40}

\* --------------------------------------------------------------- helpers

Range(f) == {f[x] : x \in DOMAIN f}

Min(a, b) == IF a < b THEN a ELSE b

MaxOf(S) == CHOOSE m \in S : \A x \in S : x <= m

Column(rows, field) == [i \in 1..Len(rows) |-> rows[i][field]]

\* np.zeros(n): a vector of n zeros, indexed from 0.
Zeros(n) == [k \in 0..(n - 1) |-> 0]

\* len() of a numpy vector.
VecLen(v) == Cardinality(DOMAIN v)

(***************************************************************************)
(* numpy integer indexing along an axis of the given size: i for           *)
(* 0 <= i < size, size + i for -size <= i < 0, and IndexError otherwise    *)
(* (reported as -1).                                                       *)
(***************************************************************************)
NormIndex(i, size) ==
  IF 0 <= i /\ i < size THEN i
  ELSE IF -size <= i /\ i < 0 THEN size + i
  ELSE -1

\* ------------------------------------------------------------- tokenizer

\* The token ids of one text with truncation left out.
EncodeNoTruncation(text, max_len) ==
  <<"<s>">> \o [j \in 1..text.n |-> text.s] \o <<"</s>">>

\* The token ids of one text: <s>, at most max_len - 2 tokens of it, </s>
\* (truncation=True, max_length=max_len).
Encode(text, max_len) ==
  <<"<s>">> \o [j \in 1..Min(text.n, max_len - 2) |-> text.s] \o <<"</s>">>

(***************************************************************************)
(* tokenizer(texts, padding=..., truncation=True, max_length=max_len).     *)
(* padding="max_length" pads every text to max_len; padding=True           *)
(* ("longest") pads to the longest text of this call.                      *)
(***************************************************************************)
tokenize(texts, padding, max_len) ==
  LET ids == [i \in 1..Len(texts) |-> Encode(texts[i], max_len)]
      width == IF padding = "max_length" THEN max_len
               ELSE IF Len(texts) = 0 THEN 0
               ELSE MaxOf({Len(ids[i]) : i \in 1..Len(texts)})
  IN [input_ids |->
        [i \in 1..Len(texts) |->
           ids[i] \o [j \in 1..(width - Len(ids[i])) |-> "<pad>"]],
      attention_mask |->
        [i \in 1..Len(texts) |->
           [j \in 1..Len(ids[i]) |-> 1] \o [j \in 1..(width - Len(ids[i])) |-> 0]]]

\* ------------------------------------------------- label encoding, dataset A

\* labels[idx, label] = 1 with every row of the batch set at once (a column
\* assignment labels[:, label] = 1).
SetLabelAllRows(labels, idx, label) ==
  [r \in 1..Len(labels) |->
     [labels[r] EXCEPT ![NormIndex(label, num_labels)] = 1]]

\* labels[idx, label] = 1 with the index shifted by one.
SetLabelShifted(labels, idx, label) ==
  [labels EXCEPT ![idx][(NormIndex(label, num_labels) + 1) % num_labels] = 1]

\* labels[idx, label] = 1, for an index numpy accepts.
SetLabel(labels, idx, label) ==
  [labels EXCEPT ![idx][NormIndex(label, num_labels)] = 1]

(***************************************************************************)
(* for idx, label in enumerate(examples['label']): labels[idx, label] = 1  *)
(* from row idx on; stops with IndexError at the first label numpy         *)
(* rejects.                                                                *)
(***************************************************************************)
RECURSIVE AssignLabels(_, _, _)
AssignLabels(labels, label_list, idx) ==
  IF idx > Len(label_list) THEN [raised |-> "", labels |-> labels]
  ELSE IF NormIndex(label_list[idx], num_labels) = -1
       THEN [raised |-> "IndexError", labels |-> labels]
  ELSE AssignLabels(SetLabel(labels, idx, label_list[idx]), label_list, idx + 1)

(***************************************************************************)
(* preprocess_function(examples) on one batch: examples.text and           *)
(* examples.label are the columns of the batch.  The result carries the    *)
(* exception in "raised" ("" when it returns).                             *)
(***************************************************************************)
preprocess_function(examples) ==
  LET inputs == tokenize(examples.text, "max_length", max_length)
      zeros == [i \in 1..Len(examples.label) |-> Zeros(num_labels)]
      r == AssignLabels(zeros, examples.label, 1)
  IN IF r.raised # ""
     THEN [raised |-> r.raised, input_ids |-> <<>>, attention_mask |-> <<>>,
           labels |-> <<>>]
     ELSE [raised |-> "", input_ids |-> inputs.input_ids,
           attention_mask |-> inputs.attention_mask, labels |-> r.labels]

(***************************************************************************)
(* dataset.map(preprocess_function, batched=True) on one split: the split  *)
(* is one batch; the new columns are added to the rows.                    *)
(***************************************************************************)
MapSplit(rows) ==
  LET out == preprocess_function([text |-> Column(rows, "text"),
                                  label |-> Column(rows, "label")])
  IN IF out.raised # "" THEN [raised |-> out.raised, rows |-> <<>>]
     ELSE [raised |-> "",
           rows |-> [i \in 1..Len(rows) |->
                       [text |-> rows[i].text, label |-> rows[i].label,
                        input_ids |-> out.input_ids[i],
                        attention_mask |-> out.attention_mask[i],
                        labels |-> out.labels[i]]]]

\* ------------------------------------------------- label encoding, dataset B

\* Every sentiment string of the model, in the order np.unique sorts them.
Alphabet ==
  << "admiration", "amusement", "anger", "annoyance", "approval", "boredom",
     "caring", "confusion", "curiosity", "desire", "disappointment", "disapproval",
     "disgust", "embarrassment", "empty", "enthusiasm", "excitement", "fear", "fun",
     "gratitude", "grief", "happiness", "hate", "joy", "love", "nervousness",
     "neutral", "optimism", "pride", "realization", "relief", "remorse", "sadness",
     "surprise", "worry" >>

\* lb.classes_: the distinct values of y, sorted.
Classes(y) ==
  LET In(s) == s \in Range(y) IN SelectSeq(Alphabet, In)

(***************************************************************************)
(* LabelBinarizer().fit_transform(y): one row per element of y.  With      *)
(* three classes or more a row is one-hot over the sorted classes; with    *)
(* two classes it is a single column, 1 for the second class; with one     *)
(* class it is a single column of 0.                                       *)
(***************************************************************************)
fit_transform(y) ==
  LET classes == Classes(y)
      K == Len(classes)
  IN [i \in 1..Len(y) |->
        IF K >= 3 THEN [k \in 0..(K - 1) |-> IF classes[k + 1] = y[i] THEN 1 ELSE 0]
        ELSE IF K = 2 THEN [k \in 0..0 |-> IF y[i] = classes[2] THEN 1 ELSE 0]
        ELSE [k \in 0..0 |-> 0]]

\* The row left as the binarizer made it.
AssignSliceNoPad(row, label) == label

\* row[:len(label)] = label, when the shapes agree: len(label) <= len(row).
AssignSlice(row, label) ==
  [k \in DOMAIN row |-> IF k < VecLen(label) THEN label[k] ELSE row[k]]

(***************************************************************************)
(* adjusted_labels = np.zeros((len(labels), num_labels)); for i, label in  *)
(* enumerate(labels): adjusted_labels[i, :len(label)] = label.  The slice  *)
(* has min(len(label), num_labels) entries; a longer label cannot be       *)
(* broadcast into it and the assignment raises ValueError, leaving the     *)
(* rows not yet assigned at zero.                                          *)
(***************************************************************************)
RECURSIVE AdjustLabels(_, _, _)
AdjustLabels(adjusted, labels, i) ==
  IF i > Len(labels) THEN [raised |-> "", adjusted_labels |-> adjusted]
  ELSE IF VecLen(labels[i]) > num_labels
       THEN [raised |-> "ValueError", adjusted_labels |-> adjusted]
  ELSE AdjustLabels([adjusted EXCEPT ![i] = AssignSlice(adjusted[i], labels[i])],
                    labels, i + 1)

\* ------------------------------------------------------- CustomDataset

\* __getitem__ with the labels always read from the first record.
CustomDataset_getitem_first_labels(self, idx) ==
  [input_ids |-> self.encodings.input_ids[idx + 1],
   attention_mask |-> self.encodings.attention_mask[idx + 1],
   labels |-> self.encodings.labels[1]]

\* CustomDataset.__getitem__(idx), idx counted from 0:
\* {key: torch.tensor(val[idx]) for key, val in self.encodings.items()}.
CustomDataset_getitem(self, idx) ==
  [key \in DOMAIN self.encodings |-> self.encodings[key][idx + 1]]

\* CustomDataset.__len__(): len(self.encodings["input_ids"]).
CustomDataset_len(self) == Len(self.encodings.input_ids)

\* The batch a Trainer collates from a CustomDataset: item 0, item 1, ...
Collate(self) ==
  [input_ids |->
     [i \in 1..CustomDataset_len(self) |-> CustomDataset_getitem(self, i - 1).input_ids],
   attention_mask |->
     [i \in 1..CustomDataset_len(self) |-> CustomDataset_getitem(self, i - 1).attention_mask],
   labels |->
     [i \in 1..CustomDataset_len(self) |-> CustomDataset_getitem(self, i - 1).labels]]

\* ------------------------------------------------------------- inference

\* torch.sigmoid of one logit, in millionths.
Sigmoid(x) ==
  CASE x = -4 -> 17986  [] x = -3 -> 47426  [] x = -2 -> 119203
    [] x = -1 -> 268941 [] x = 0 -> 500000  [] x = 1 -> 731059
    [] x = 2 -> 880797  [] x = 3 -> 952574  [] x = 4 -> 982014

\* torch.sigmoid(logits): elementwise, on a batch of logit vectors.
TorchSigmoid(logits) ==
  [i \in 1..Len(logits) |-> [k \in DOMAIN logits[i] |-> Sigmoid(logits[i][k])]]

\* torch.argmax of one vector: the first index of its greatest entry.
Argmax(v) ==
  CHOOSE k \in DOMAIN v :
    /\ \A j \in DOMAIN v : v[j] <= v[k]
    /\ \A j \in DOMAIN v : j < k => v[j] < v[k]

\* (probabilities >= t).int().
ThresholdInclusive(probabilities, t) ==
  [i \in 1..Len(probabilities) |->
     [k \in DOMAIN probabilities[i] |-> IF probabilities[i][k] >= t THEN 1 ELSE 0]]

\* Single-label prediction: 1 at the argmax of each row only.
ThresholdArgmax(probabilities, t) ==
  [i \in 1..Len(probabilities) |->
     [k \in DOMAIN probabilities[i] |->
        IF k = Argmax(probabilities[i]) THEN 1 ELSE 0]]

\* (probabilities > threshold).int().
Threshold(probabilities, t) ==
  [i \in 1..Len(probabilities) |->
     [k \in DOMAIN probabilities[i] |-> IF probabilities[i][k] > t THEN 1 ELSE 0]]

\* zip(names, row.tolist()): pairs, as many as the shorter of the two.
Zip(names, row) ==
  [k \in 1..Min(Len(names), VecLen(row)) |-> <<names[k], row[k - 1]>>]

\* f"{prob:.4f}": a probability rounded to ten-thousandths.
Format4f(prob) == (prob + 50) \div 100

\* The first loop with every text reported against the first row.
DisplayProbabilitiesFirstRow(texts, probabilities) ==
  [i \in 1..Len(texts) |->
     [text |-> texts[i].s,
      lines |-> LET z == Zip(emotion_labels, probabilities[1])
                IN [k \in 1..Len(z) |-> <<z[k][1], Format4f(z[k][2])>>]]]

(***************************************************************************)
(* The first print loop: per text, one line "emotion: prob" per pair of    *)
(* zip(emotion_labels, probabilities[i]).                                  *)
(***************************************************************************)
DisplayProbabilities(texts, probabilities) ==
  [i \in 1..Len(texts) |->
     [text |-> texts[i].s,
      lines |-> LET z == Zip(emotion_labels, probabilities[i])
                IN [k \in 1..Len(z) |-> <<z[k][1], Format4f(z[k][2])>>]]]

\* The names of one row of predictions whose entry is 1, in list order.
PredictedEmotions(names, pred) ==
  LET z == Zip(names, pred)
      Set(p) == p[2] = 1
      kept == SelectSeq(z, Set)
  IN [k \in 1..Len(kept) |-> kept[k][1]]

(***************************************************************************)
(* The second print loop: per text, the emotions whose prediction is 1.    *)
(***************************************************************************)
DisplayPredicted(texts, predictions) ==
  [i \in 1..Len(texts) |->
     [text |-> texts[i].s,
      emotions |-> PredictedEmotions(emotion_labels, predictions[i])]]

\* ------------------------------------------------------------ the network

ConstVec(b) == [k \in 0..(num_labels - 1) |-> b]

HotVec(b, i, v) == [k \in 0..(num_labels - 1) |-> IF k = i THEN v ELSE b]

\* A network: its logits for each of the three sentences of custom_input and
\* for any other text.
Net(c1, c2, c3, other) ==
  [at |-> (custom_input[1].s :> c1) @@ (custom_input[2].s :> c2)
            @@ (custom_input[3].s :> c3),
   other |-> other]

\* model(**encoded_inputs).logits: one logit vector per encoded text, read off
\* the first token after <s>.
Forward(net, encoded) ==
  [i \in 1..Len(encoded.input_ids) |->
     LET key == encoded.input_ids[i][2]
     IN IF key \in DOMAIN net.at THEN net.at[key] ELSE net.other]

\* ------------------------------------------------------------- the world

LogitVals == (-MaxLogit)..MaxLogit

\* What from_pretrained("SamLowe/roberta-base-go_emotions") loads.
PretrainedNet == Net(ConstVec(0), ConstVec(0), ConstVec(0), ConstVec(0))

\* Outcomes of the two trainer.train() calls, when they are not varied.
FitANet == Net(ConstVec(1), ConstVec(1), ConstVec(1), ConstVec(1))
FitBNet == Net(ConstVec(-1), ConstVec(-1), ConstVec(-1), ConstVec(-1))
CheckpointNet == Net(HotVec(-1, 17, 1), HotVec(-1, 2, 1), HotVec(-1, 6, 1), ConstVec(0))

\* The networks checkpoint-11000 may hold: any logits at one index of the
\* first sentence over a uniform rest, uniform logits for the other two.
NetFamily ==
  { Net(HotVec(b, i, v), ConstVec(b2), ConstVec(-b2), ConstVec(b2)) :
      b \in LogitVals, i \in 0..(num_labels - 1), v \in LogitVals,
      b2 \in {0, MaxLogit} }

\* Dataset A (SetFit/emotion): rows of a text and an integer class label.
DefaultTrain ==
  [i \in 1..TrainSelect |-> [text |-> [s |-> "i feel fine", n |-> 3], label |-> 0]]

DefaultTest ==
  [i \in 1..TestSelect |-> [text |-> [s |-> "i feel low", n |-> 3], label |-> 1]]

\* The first row varies in its label or in the length of its text.
FirstRows ==
  { [text |-> [s |-> "i didnt feel humiliated", n |-> 3], label |-> l] :
      l \in (-MaxLabel)..MaxLabel }
  \cup { [text |-> [s |-> "i didnt feel humiliated", n |-> n], label |-> 0] :
           n \in TokenCounts }

OtherRows ==
  { [text |-> [s |-> "i am feeling grouchy", n |-> 3], label |-> l] :
      l \in {1, num_labels - 1, num_labels} }

TrainFamily ==
  { <<first>> \o rest :
      first \in FirstRows,
      rest \in UNION { [1..m -> OtherRows] : m \in (TrainSelect - 1)..TrainSelect } }

\* Dataset B (tweet_emotions.csv): rows of a content text and a sentiment
\* string.  The sentiments of the Kaggle file, in order of first appearance.
TweetSentiments ==
  << "empty", "sadness", "enthusiasm", "neutral", "worry", "surprise", "love",
     "fun", "hate", "happiness", "boredom", "relief", "anger" >>

\* The content of the i-th row of the CSV file.
TweetTexts ==
  << "tweet 01", "tweet 02", "tweet 03", "tweet 04", "tweet 05", "tweet 06",
     "tweet 07", "tweet 08", "tweet 09", "tweet 10", "tweet 11", "tweet 12",
     "tweet 13", "tweet 14", "tweet 15", "tweet 16", "tweet 17", "tweet 18",
     "tweet 19", "tweet 20", "tweet 21", "tweet 22", "tweet 23", "tweet 24",
     "tweet 25", "tweet 26", "tweet 27", "tweet 28", "tweet 29", "tweet 30",
     "tweet 31", "tweet 32", "tweet 33", "tweet 34", "tweet 35", "tweet 36" >>

Reverse(seq) == [i \in 1..Len(seq) |-> seq[Len(seq) + 1 - i]]

\* One row per sentiment of ss, the first content n1 tokens long; with dup,
\* a last row repeating the first sentiment.
CsvRows(ss, n1, dup) ==
  LET once == [i \in 1..Len(ss) |->
                 [content |-> [s |-> TweetTexts[i],
                               n |-> IF i = 1 THEN n1 ELSE 2],
                  sentiment |-> ss[i]]]
  IN IF dup THEN once \o <<[content |-> [s |-> "again", n |-> 2],
                            sentiment |-> ss[1]]>>
     ELSE once

SentimentLists ==
  { SubSeq(emotion_labels, 1, K) : K \in 1..Min(MaxClasses, Len(emotion_labels)) }
  \cup { SubSeq(Alphabet, 1, K) : K \in 1..Min(MaxClasses, Len(Alphabet)) }
  \cup { TweetSentiments, Reverse(emotion_labels) }

CsvFamily ==
  { CsvRows(ss, n1, dup) : ss \in SentimentLists, n1 \in TokenCounts,
                           dup \in BOOLEAN }

DefaultCsv == CsvRows(TweetSentiments, 2, FALSE)

DefaultFit == [A |-> FitANet, B |-> FitBNet, checkpoint |-> CheckpointNet]

MakeWorld(train, csv, ckpt) ==
  [emotion |-> [train |-> train, test |-> DefaultTest],
   csv |-> csv,
   pretrained |-> PretrainedNet,
   fit |-> [DefaultFit EXCEPT !.checkpoint = ckpt],
   checkpoint_kept |-> TRUE]

\* The runs of the model: each varies one input around the default run.
Worlds ==
  { MakeWorld(t, DefaultCsv, CheckpointNet) : t \in TrainFamily }
  \cup { MakeWorld(DefaultTrain, c, CheckpointNet) : c \in CsvFamily }
  \cup { MakeWorld(DefaultTrain, DefaultCsv, n) : n \in NetFamily }
  \cup { [MakeWorld(DefaultTrain, DefaultCsv, CheckpointNet)
            EXCEPT !.checkpoint_kept = FALSE] }

\* ----------------------------------------------------------------- state

VARIABLES
  pc,                        \* the next cell to run, "done" or "raised"
  raised,                    \* the exception that stopped the run, or ""
  world,                     \* the datasets and training outcomes of this run
  disk,                      \* the model directories the notebook writes and reads
  stdout,                    \* what the inference cell has printed
  events,                    \* the operations on model weights so far, in order
  model, tokenizer, dataset, tokenized_dataset,
  small_train_dataset, small_validation_dataset,
  trainer, results, encoded_inputs, outputs, predictions, labels,
  new_dataset, lb, adjusted_labels, custom_dataset, probabilities

vars ==
  << pc, raised, world, disk, stdout, events, model, tokenizer, dataset,
     tokenized_dataset, small_train_dataset, small_validation_dataset,
     trainer, results, encoded_inputs, outputs, predictions, labels,
     new_dataset, lb, adjusted_labels, custom_dataset, probabilities >>

\* A name not assigned yet: the empty value of its type.
Undefined == <<>>

NoEncoding == [input_ids |-> <<>>, attention_mask |-> <<>>]

NoNet == [at |-> <<>>, other |-> <<>>]

\* The directory of save_pretrained and of the reload.
fine_tuned_path == "./fine_tuned_model_epoch_1"

\* checkpoint_path, without the drive and folder it is under.
checkpoint_path == "results_custom/checkpoint-11000"

Init ==
  /\ world \in Worlds
  /\ pc = "load"
  /\ raised = ""
  /\ disk = [p \in {fine_tuned_path, checkpoint_path} |-> <<>>]
  /\ stdout = [probabilities |-> <<>>, predicted |-> <<>>]
  /\ events = <<>>
  /\ model = NoNet
  /\ tokenizer = ""
  /\ dataset = [train |-> <<>>, test |-> <<>>]
  /\ tokenized_dataset = [train |-> <<>>, test |-> <<>>, columns |-> <<>>]
  /\ small_train_dataset = <<>>
  /\ small_validation_dataset = <<>>
  /\ trainer = Undefined
  /\ results = Undefined
  /\ encoded_inputs = NoEncoding
  /\ outputs = <<>>
  /\ predictions = <<>>
  /\ labels = <<>>
  /\ new_dataset = <<>>
  /\ lb = <<>>
  /\ adjusted_labels = <<>>
  /\ custom_dataset = [encodings |-> NoEncoding]
  /\ probabilities = <<>>

\* One operation on model weights: a load from persisted state, the weight
\* updates of one epoch of trainer.train(), a save, or a forward pass
\* (evaluation or inference), with the cell that runs it.
Event(op, cell) == [op |-> op, cell |-> cell]

(***************************************************************************)
(* trainer.train() with evaluation_strategy="epoch" and an eval_dataset:   *)
(* every epoch updates the weights and then evaluates the model in memory. *)
(***************************************************************************)
RECURSIVE TrainEvents(_, _)
TrainEvents(cell, epochs) ==
  IF epochs = 0 THEN <<>>
  ELSE <<Event("train", cell), Event("forward", cell)>> \o TrainEvents(cell, epochs - 1)

\* from_pretrained(path) that hands back the model already in memory.
from_pretrained_in_memory(path) == model

\* AutoModelForSequenceClassification.from_pretrained(path) of a local
\* directory: the weights persisted there.
from_pretrained(path) == disk[path][1].weights

\* A cell stops the run with an exception.
Raise(exc) == pc' = "raised" /\ raised' = exc

Goto(cell) == pc' = cell /\ raised' = ""

\* ----------------------------------------------------------------- cells

\* from_pretrained(...) of the model and the tokenizer, load_dataset(...).
LoadPretrained ==
  /\ pc = "load"
  /\ model' = world.pretrained
  /\ events' = Append(events, Event("load", "load"))
  /\ tokenizer' = "SamLowe/roberta-base-go_emotions"
  /\ dataset' = world.emotion
  /\ Goto("preprocess")
  /\ UNCHANGED << world, disk, stdout, tokenized_dataset, small_train_dataset,
                  small_validation_dataset, trainer, results, encoded_inputs,
                  outputs, predictions, labels, new_dataset, lb, adjusted_labels,
                  custom_dataset, probabilities >>

\* dataset.map(preprocess_function, batched=True), split by split, then
\* set_format: a split that raises leaves tokenized_dataset unassigned.
Preprocess ==
  /\ pc = "preprocess"
  /\ LET train == MapSplit(dataset.train)
         test == MapSplit(dataset.test)
     IN IF train.raised # ""
        THEN Raise(train.raised) /\ UNCHANGED tokenized_dataset
        ELSE IF test.raised # ""
        THEN Raise(test.raised) /\ UNCHANGED tokenized_dataset
        ELSE /\ tokenized_dataset' =
                  [train |-> train.rows, test |-> test.rows,
                   columns |-> <<"input_ids", "attention_mask", "labels">>]
             /\ Goto("subsets")
  /\ UNCHANGED << world, events, disk, stdout, model, tokenizer, dataset,
                  small_train_dataset, small_validation_dataset, trainer, results,
                  encoded_inputs, outputs, predictions, labels, new_dataset, lb,
                  adjusted_labels, custom_dataset, probabilities >>

Perms(n) == { p \in [1..n -> 1..n] : \A i, j \in 1..n : p[i] = p[j] => i = j }

\* rows.shuffle(seed=42): some reordering of the rows.
Shuffle(rows, p) == [i \in 1..Len(rows) |-> rows[p[i]]]

\* The two subsets: shuffle(seed=42).select(range(n)); select raises
\* IndexError on a split with fewer than n rows.
Subsets ==
  /\ pc = "subsets"
  /\ \E p \in Perms(Len(tokenized_dataset.train)),
        q \in Perms(Len(tokenized_dataset.test)) :
       IF Len(tokenized_dataset.train) < TrainSelect
       THEN Raise("IndexError")
            /\ UNCHANGED << small_train_dataset, small_validation_dataset >>
       ELSE IF Len(tokenized_dataset.test) < TestSelect
       THEN /\ small_train_dataset' =
                 SubSeq(Shuffle(tokenized_dataset.train, p), 1, TrainSelect)
            /\ Raise("IndexError")
            /\ UNCHANGED small_validation_dataset
       ELSE /\ small_train_dataset' =
                 SubSeq(Shuffle(tokenized_dataset.train, p), 1, TrainSelect)
            /\ small_validation_dataset' =
                 SubSeq(Shuffle(tokenized_dataset.test, q), 1, TestSelect)
            /\ Goto("train")
  /\ UNCHANGED << world, events, disk, stdout, model, tokenizer, dataset,
                  tokenized_dataset, trainer, results, encoded_inputs, outputs,
                  predictions, labels, new_dataset, lb, adjusted_labels,
                  custom_dataset, probabilities >>

\* Trainer(model, training_args, small_train_dataset, ...).train(): the
\* weights of model become the outcome of the first fine-tuning.
FineTune ==
  /\ pc = "train"
  /\ trainer' = [output_dir |-> "./results",
                 train_dataset |-> "small_train_dataset",
                 eval_dataset |-> "small_validation_dataset"]
  /\ model' = world.fit.A
  /\ events' = events \o TrainEvents("train", 10)
  /\ Goto("save")
  /\ UNCHANGED << world, disk, stdout, tokenizer, dataset, tokenized_dataset,
                  small_train_dataset, small_validation_dataset, results,
                  encoded_inputs, outputs, predictions, labels, new_dataset, lb,
                  adjusted_labels, custom_dataset, probabilities >>

\* model.save_pretrained, tokenizer.save_pretrained.
Save ==
  /\ pc = "save"
  /\ disk' = [disk EXCEPT ![fine_tuned_path] =
                <<[weights |-> model, tokenizer |-> tokenizer]>>]
  /\ events' = Append(events, Event("save", "save"))
  /\ Goto("reload")
  /\ UNCHANGED << world, stdout, model, tokenizer, dataset, tokenized_dataset,
                  small_train_dataset, small_validation_dataset, trainer, results,
                  encoded_inputs, outputs, predictions, labels, new_dataset, lb,
                  adjusted_labels, custom_dataset, probabilities >>

\* from_pretrained("./fine_tuned_model_epoch_1"), Trainer(model,
\* eval_dataset).evaluate(); the value of the loss is not modelled.
ReloadEvaluate ==
  /\ pc = "reload"
  /\ IF disk[fine_tuned_path] = <<>>
     THEN Raise("OSError")
          /\ UNCHANGED << events, model, tokenizer, trainer, results >>
     ELSE /\ model' = from_pretrained(fine_tuned_path)
          /\ events' = events \o <<Event("load", "reload"), Event("forward", "reload")>>
          /\ tokenizer' = fine_tuned_path
          /\ trainer' = [output_dir |-> "tmp_trainer", train_dataset |-> "",
                         eval_dataset |-> "small_validation_dataset"]
          /\ results' = [metric |-> "eval_loss",
                         samples |-> Len(small_validation_dataset)]
          /\ Goto("accuracy")
  /\ UNCHANGED << world, disk, stdout, dataset, tokenized_dataset,
                  small_train_dataset, small_validation_dataset, encoded_inputs,
                  outputs, predictions, labels, new_dataset, lb, adjusted_labels,
                  custom_dataset, probabilities >>

\* The accuracy cell: tokenizer(texts, padding=True), one forward pass,
\* argmax against the integer labels.
Accuracy ==
  /\ pc = "accuracy"
  /\ LET enc == tokenize(Column(small_validation_dataset, "text"), "longest",
                         max_length)
         logits == Forward(model, enc)
         preds == [i \in 1..Len(logits) |-> Argmax(logits[i])]
         refs == Column(small_validation_dataset, "label")
     IN /\ encoded_inputs' = enc
        /\ outputs' = logits
        /\ predictions' = preds
        /\ labels' = refs
        /\ results' = [metric |-> "accuracy",
                       correct |-> Cardinality({i \in 1..Len(refs) : preds[i] = refs[i]}),
                       samples |-> Len(refs)]
  /\ events' = Append(events, Event("forward", "accuracy"))
  /\ Goto("custom")
  /\ UNCHANGED << world, disk, stdout, model, tokenizer, dataset,
                  tokenized_dataset, small_train_dataset, small_validation_dataset,
                  trainer, new_dataset, lb, adjusted_labels, custom_dataset,
                  probabilities >>

(***************************************************************************)
(* The custom dataset cell: read_csv, LabelBinarizer, the adjustment of    *)
(* the labels to num_labels columns, tokenizer(contents, padding=True),    *)
(* CustomDataset(encoded_inputs).  When the adjustment raises, the names   *)
(* assigned before it keep their new values.                               *)
(***************************************************************************)
CustomDataset ==
  /\ pc = "custom"
  /\ LET csv == world.csv
         y == Column(csv, "sentiment")
         binarized == fit_transform(y)
         zeros == [i \in 1..Len(binarized) |-> Zeros(num_labels)]
         adj == AdjustLabels(zeros, binarized, 1)
         enc == tokenize(Column(csv, "content"), "longest", max_length)
         withLabels == [input_ids |-> enc.input_ids,
                        attention_mask |-> enc.attention_mask,
                        labels |-> adj.adjusted_labels]
     IN /\ new_dataset' = csv
        /\ lb' = Classes(y)
        /\ labels' = binarized
        /\ adjusted_labels' = adj.adjusted_labels
        /\ IF adj.raised # ""
           THEN Raise(adj.raised) /\ UNCHANGED << encoded_inputs, custom_dataset >>
           ELSE /\ encoded_inputs' = withLabels
                /\ custom_dataset' = [encodings |-> withLabels]
                /\ Goto("train_custom")
  /\ UNCHANGED << world, events, disk, stdout, model, tokenizer, dataset,
                  tokenized_dataset, small_train_dataset, small_validation_dataset,
                  trainer, results, outputs, predictions, probabilities >>

\* Trainer(model, training_args, custom_dataset, ...).train(): the weights
\* of model become the outcome of the second fine-tuning.  The trainer
\* writes checkpoints under results_custom and keeps the last two of them
\* (save_total_limit=2): whether checkpoint-11000 is one of the two depends
\* on the number of rows of the csv file.
FineTuneCustom ==
  /\ pc = "train_custom"
  /\ trainer' = [output_dir |-> "./results_custom",
                 train_dataset |-> "custom_dataset",
                 eval_dataset |-> "custom_dataset"]
  /\ model' = world.fit.B
  /\ events' = events \o TrainEvents("train_custom", 3)
  /\ disk' = [disk EXCEPT ![checkpoint_path] =
                IF world.checkpoint_kept
                THEN <<[weights |-> world.fit.checkpoint, tokenizer |-> tokenizer]>>
                ELSE <<>>]
  /\ Goto("checkpoint")
  /\ UNCHANGED << world, stdout, tokenizer, dataset, tokenized_dataset,
                  small_train_dataset, small_validation_dataset, results,
                  encoded_inputs, outputs, predictions, labels, new_dataset, lb,
                  adjusted_labels, custom_dataset, probabilities >>

\* from_pretrained(checkpoint_path), model.eval(), trainer.predict(
\* custom_dataset), torch.sigmoid of the predictions.
CheckpointPredict ==
  /\ pc = "checkpoint"
  /\ IF disk[checkpoint_path] = <<>>
     THEN Raise("OSError")
          /\ UNCHANGED << events, model, tokenizer, trainer, results,
                          probabilities >>
     ELSE LET net == from_pretrained(checkpoint_path)
              logits == Forward(net, Collate(custom_dataset))
          IN /\ model' = net
             /\ tokenizer' = checkpoint_path
             /\ trainer' = [output_dir |-> "tmp_trainer", train_dataset |-> "",
                            eval_dataset |-> "custom_dataset"]
             /\ results' = [metric |-> "predictions", predictions |-> logits]
             /\ probabilities' = TorchSigmoid(logits)
             /\ events' = events \o <<Event("load", "checkpoint"),
                                       Event("forward", "checkpoint")>>
             /\ Goto("inference")
  /\ UNCHANGED << world, disk, stdout, dataset, tokenized_dataset,
                  small_train_dataset, small_validation_dataset, encoded_inputs,
                  outputs, predictions, labels, new_dataset, lb, adjusted_labels,
                  custom_dataset >>

\* The inference cell: tokenizer(custom_input, padding=True), one forward
\* pass, sigmoid, the first print loop, the threshold, the second print loop.
Inference ==
  /\ pc = "inference"
  /\ LET enc == tokenize(custom_input, "longest", max_length)
         logits == Forward(model, enc)
         probs == TorchSigmoid(logits)
         preds == Threshold(probs, threshold)
     IN /\ encoded_inputs' = enc
        /\ outputs' = logits
        /\ probabilities' = probs
        /\ predictions' = preds
        /\ stdout' = [probabilities |-> DisplayProbabilities(custom_input, probs),
                      predicted |-> DisplayPredicted(custom_input, preds)]
  /\ events' = Append(events, Event("forward", "inference"))
  /\ Goto("done")
  /\ UNCHANGED << world, disk, model, tokenizer, dataset, tokenized_dataset,
                  small_train_dataset, small_validation_dataset, trainer, results,
                  labels, new_dataset, lb, adjusted_labels, custom_dataset >>

Next ==
  \/ LoadPretrained
  \/ Preprocess
  \/ Subsets
  \/ FineTune
  \/ Save
  \/ ReloadEvaluate
  \/ Accuracy
  \/ CustomDataset
  \/ FineTuneCustom
  \/ CheckpointPredict
  \/ Inference

Spec == Init /\ [][Next]_vars

\* ---------------------------------------------------------------- claims

\* The rows preprocess_function has encoded, over both splits.
EncodedRows == Range(tokenized_dataset.train) \cup Range(tokenized_dataset.test)

OneHot(l) == [k \in 0..(num_labels - 1) |-> IF k = l THEN 1 ELSE 0]

\* A vector of 0.0/1.0 label values read as probabilities, in millionths.
AsProbabilities(v) == [k \in DOMAIN v |-> v[k] * 1000000]

\* The set of category names decoded from one probability vector at t.
Decode(p, t) == Range(PredictedEmotions(emotion_labels, Threshold(<<p>>, t)[1]))

\* Thresholds that fall below, on and above the probabilities of the model.
Thresholds == {0, threshold, 1000000} \cup {Sigmoid(x) : x \in LogitVals}

(***************************************************************************)
(* C1.  Threshold decoding is strict.  Once the inference cell has run,    *)
(* the emotions it prints for input i are exactly the categories c with    *)
(* probabilities[i][index(c)] > threshold, and the same holds of the       *)
(* decoding of those probabilities at every other threshold t; a row whose *)
(* probabilities all equal the threshold decodes to the empty set.         *)
(***************************************************************************)
C1_StrictThreshold ==
  pc = "done" =>
    \A i \in 1..Len(custom_input) :
      /\ \A k \in 1..Len(emotion_labels) :
           (emotion_labels[k] \in Range(stdout.predicted[i].emotions))
             <=> (probabilities[i][k - 1] > threshold)
      /\ \A t \in Thresholds : \A k \in 1..Len(emotion_labels) :
           (emotion_labels[k] \in Decode(probabilities[i], t))
             <=> (probabilities[i][k - 1] > t)
      /\ (\A k \in DOMAIN probabilities[i] : probabilities[i][k] = threshold)
           => stdout.predicted[i].emotions = <<>>

\* C1 witness: the inference cell has run on a row of probabilities that
\* all equal the threshold, and on another row with a predicted emotion.
C1_Witness ==
  /\ pc = "done"
  /\ \E i \in 1..Len(custom_input) :
       /\ \A k \in DOMAIN probabilities[i] : probabilities[i][k] = threshold
       /\ stdout.predicted[i].emotions = <<>>
  /\ \E i \in 1..Len(custom_input) : stdout.predicted[i].emotions # <<>>

(***************************************************************************)
(* C2.  Every label vector the label encoding produces has exactly         *)
(* num_labels = 28 entries: the labels column of every row encoded by      *)
(* preprocess_function, every row of adjusted_labels and every label row   *)
(* of the custom dataset, whatever the number of classes of the CSV file.  *)
(* (An encoding that raises produces no vector.)                           *)
(***************************************************************************)
C2_LabelWidth ==
  /\ \A r \in EncodedRows : DOMAIN r.labels = 0..(num_labels - 1)
  /\ \A r \in Range(small_train_dataset) \cup Range(small_validation_dataset) :
       DOMAIN r.labels = 0..(num_labels - 1)
  /\ \A i \in 1..Len(adjusted_labels) :
       DOMAIN adjusted_labels[i] = 0..(num_labels - 1)
  /\ \A i \in 1..Len(custom_dataset.encodings.input_ids) :
       DOMAIN custom_dataset.encodings.labels[i] = 0..(num_labels - 1)

\* C2 witness: both encodings have produced vectors, the CSV file having
\* fewer classes than num_labels (and at least three).
C2_Witness ==
  /\ EncodedRows # {}
  /\ Len(custom_dataset.encodings.input_ids) > 0
  /\ Len(custom_dataset.encodings.labels) = Len(new_dataset)
  /\ Len(lb) >= 3 /\ Len(lb) < num_labels

(***************************************************************************)
(* C3.  For every row whose integer class label l is in 0..num_labels-1,   *)
(* preprocess_function produces the vector with 1 at index l and 0         *)
(* everywhere else, whatever the labels of the other rows of the batch.    *)
(***************************************************************************)
C3_OneHot ==
  \A split \in {tokenized_dataset.train, tokenized_dataset.test} :
    \A i \in 1..Len(split) :
      (0 <= split[i].label /\ split[i].label < num_labels)
        => split[i].labels = OneHot(split[i].label)

\* C3 witness: a batch of two rows with different labels in range has been
\* encoded.
C3_Witness ==
  \E i, j \in 1..Len(tokenized_dataset.train) :
    /\ tokenized_dataset.train[i].label \in 0..(num_labels - 1)
    /\ tokenized_dataset.train[j].label \in 0..(num_labels - 1)
    /\ tokenized_dataset.train[i].label # tokenized_dataset.train[j].label
    /\ tokenized_dataset.train[i].labels = OneHot(tokenized_dataset.train[i].label)

(***************************************************************************)
(* C4.  Encoding an integer class label outside 0..num_labels-1 fails:     *)
(* once the preprocessing cell has run on a dataset holding such a label,  *)
(* it has raised and produced no label vector.                             *)
(***************************************************************************)
C4_RejectsOutOfDomain ==
  (/\ pc \notin {"load", "preprocess"}
   /\ \E r \in Range(dataset.train) \cup Range(dataset.test) :
        r.label < 0 \/ r.label >= num_labels)
    => (raised = "IndexError" /\ EncodedRows = {})

(***************************************************************************)
(* C5.  Round trip of the single-label case: for every encoded row whose   *)
(* label l is in 0..num_labels-1, decoding its label vector, read as a     *)
(* probability vector, at the threshold 0.5 against emotion_labels gives   *)
(* exactly the one emotion emotion_labels[l] (the (l+1)-th of the list).   *)
(***************************************************************************)
C5_RoundTrip ==
  \A r \in EncodedRows :
    (0 <= r.label /\ r.label < num_labels)
      => /\ Decode(AsProbabilities(r.labels), threshold) = {emotion_labels[r.label + 1]}
         /\ PredictedEmotions(emotion_labels,
                              Threshold(<<AsProbabilities(r.labels)>>, threshold)[1])
              = <<emotion_labels[r.label + 1]>>

\* C5 witness: rows labelled with the first and with the last class have
\* been encoded, and the last decodes to "neutral".
C5_Witness ==
  /\ \E r \in EncodedRows : r.label = 0
  /\ \E r \in EncodedRows :
       /\ r.label = num_labels - 1
       /\ Decode(AsProbabilities(r.labels), threshold) = {"neutral"}

(***************************************************************************)
(* C6.  Inference preserves order and length: the inference cell prints    *)
(* one result per input text, in input order; the i-th result names the    *)
(* i-th text and carries num_labels probabilities, the k-th being the      *)
(* sigmoid of the network's k-th logit for the i-th text under the k-th    *)
(* name of emotion_labels, and its predicted emotions are those of the     *)
(* i-th text.                                                              *)
(***************************************************************************)
C6_OrderAndLength ==
  pc = "done" =>
    /\ Len(stdout.probabilities) = Len(custom_input)
    /\ Len(stdout.predicted) = Len(custom_input)
    /\ \A i \in 1..Len(custom_input) :
         LET logit == model.at[custom_input[i].s]
         IN /\ stdout.probabilities[i].text = custom_input[i].s
            /\ Len(stdout.probabilities[i].lines) = num_labels
            /\ \A k \in 1..num_labels :
                 stdout.probabilities[i].lines[k]
                   = <<emotion_labels[k], Format4f(Sigmoid(logit[k - 1]))>>
            /\ stdout.predicted[i].text = custom_input[i].s
            /\ Range(stdout.predicted[i].emotions)
                 = {emotion_labels[k] : k \in {j \in 1..num_labels :
                                                 Sigmoid(logit[j - 1]) > threshold}}

\* C6 witness: the inference cell has printed three results that differ
\* pairwise, so that their order shows.
C6_Witness ==
  /\ pc = "done"
  /\ \A i, j \in 1..Len(custom_input) :
       i # j => /\ stdout.probabilities[i].lines # stdout.probabilities[j].lines
                /\ stdout.predicted[i].emotions # stdout.predicted[j].emotions

\* The length tokenizer(texts, padding=True, max_length=128) pads to: that
\* of the longest text with its two special tokens, capped at max_length.
LongestLength(texts) ==
  Min(max_length, 2 + MaxOf({texts[i].n : i \in 1..Len(texts)}))

\* Every row of an encoding has input_ids and attention_mask of length n.
AllOfLength(enc, n) ==
  \A i \in 1..Len(enc.input_ids) :
    Len(enc.input_ids[i]) = n /\ Len(enc.attention_mask[i]) = n

C8_IndexNamesSameCategory ==
  /\ \A r \in EncodedRows :
       (0 <= r.label /\ r.label < num_labels)
         => \A k \in DOMAIN r.labels : r.labels[k] = 1 => k = r.label
  /\ \A i \in 1..Len(custom_dataset.encodings.input_ids) :
       \A k \in DOMAIN custom_dataset.encodings.labels[i] :
         custom_dataset.encodings.labels[i][k] = 1
           => emotion_labels[k + 1] = new_dataset[i].sentiment

(***************************************************************************)
(* C9.  The re-alignment of the CSV labels is a positional truncation or   *)
(* zero-padding that never fails: once the custom dataset cell has run, it *)
(* has not raised, and for every record with binarized vector b of width   *)
(* K the adjusted vector a has a[j] = b[j] for j < min(K, num_labels) and  *)
(* a[j] = 0 for min(K, num_labels) <= j < num_labels.                      *)
(***************************************************************************)
C9_TruncateOrPad ==
  new_dataset # <<>> =>
    /\ raised = ""
    /\ Len(adjusted_labels) = Len(new_dataset)
    /\ \A i \in 1..Len(new_dataset) :
         LET b == labels[i]
             K == VecLen(b)
         IN /\ DOMAIN adjusted_labels[i] = 0..(num_labels - 1)
            /\ \A j \in 0..(num_labels - 1) :
                 adjusted_labels[i][j] = IF j < Min(K, num_labels) THEN b[j] ELSE 0

(***************************************************************************)
(* C10.  Prediction is multi-label and independent per label: whether      *)
(* category c is predicted for an input depends only on that input's       *)
(* logit for c.  Any two inputs of the batch whose logits agree at index c *)
(* get the same prediction for c and c is printed for both or for          *)
(* neither, whatever their other logits.                                   *)
(***************************************************************************)
C10_PerLabelIndependence ==
  pc = "done" =>
    \A i, j \in 1..Len(custom_input) : \A c \in 0..(num_labels - 1) :
      outputs[i][c] = outputs[j][c]
        => /\ predictions[i][c] = predictions[j][c]
           /\ (emotion_labels[c + 1] \in Range(stdout.predicted[i].emotions))
                <=> (emotion_labels[c + 1] \in Range(stdout.predicted[j].emotions))

\* C10 witness: one batch with a predicted set of size zero, one of size
\* one and one of size greater than one, two of the inputs agreeing at the
\* index where only one of them has its single prediction.
C10_Witness ==
  /\ pc = "done"
  /\ \E i, j, l \in 1..Len(custom_input) :
       /\ Len(stdout.predicted[i].emotions) = 0
       /\ Len(stdout.predicted[j].emotions) = 1
       /\ Len(stdout.predicted[l].emotions) > 1
       /\ \E c \in 0..(num_labels - 1) :
            /\ predictions[j][c] = 1
            /\ outputs[j][c] = outputs[l][c]
            /\ outputs[j] # outputs[l]

\* The tokens of an encoded row without its padding.
Unpadded(ids) ==
  LET Real(tok) == tok # "<pad>" IN SelectSeq(ids, Real)

\* The number of positions of an attention mask that are attended to.
Attended(mask) == Cardinality({j \in 1..Len(mask) : mask[j] = 1})

\* The label vector preprocess_function gives a record encoded on its own.
LabelVectorAlone(row) ==
  preprocess_function([text |-> <<row.text>>, label |-> <<row.label>>]).labels[1]

\* The rows of one split of dataset A are the raw rows, in order, each with
\* the encoding of its own text and the label vector of its own label.
SplitAligned(raw, rows) ==
  /\ Len(rows) = Len(raw)
  /\ \A i \in 1..Len(raw) :
       /\ rows[i].text = raw[i].text
       /\ rows[i].label = raw[i].label
       /\ Unpadded(rows[i].input_ids) = Encode(raw[i].text, max_length)
       /\ Attended(rows[i].attention_mask) = Len(Encode(raw[i].text, max_length))
       /\ Len(rows[i].attention_mask) = Len(rows[i].input_ids)
       /\ rows[i].labels = LabelVectorAlone(raw[i])

(***************************************************************************)
(* C11.  The dataset adapter preserves the order and the number of the     *)
(* records.  Dataset A: each encoded split has as many rows as the raw     *)
(* split, and row i holds the encoding of the i-th text and the label      *)
(* vector of the i-th label.  Dataset B: __len__ is the number of records  *)
(* of the CSV file, and __getitem__(i) returns the input_ids and           *)
(* attention_mask of the i-th content and the zero-padded binarized vector *)
(* of the i-th sentiment.  The raw records stay as they were loaded.       *)
(***************************************************************************)
C11_OrderAndCount ==
  /\ tokenized_dataset.train # <<>> =>
       /\ SplitAligned(dataset.train, tokenized_dataset.train)
       /\ SplitAligned(dataset.test, tokenized_dataset.test)
  /\ dataset.train # <<>> => dataset = world.emotion
  /\ new_dataset # <<>> => new_dataset = world.csv
  /\ CustomDataset_len(custom_dataset) > 0 =>
       /\ CustomDataset_len(custom_dataset) = Len(new_dataset)
       /\ \A i \in 1..Len(new_dataset) :
            LET item == CustomDataset_getitem(custom_dataset, i - 1)
                b == fit_transform(Column(new_dataset, "sentiment"))[i]
            IN /\ DOMAIN item = {"input_ids", "attention_mask", "labels"}
               /\ Unpadded(item.input_ids) = Encode(new_dataset[i].content, max_length)
               /\ Attended(item.attention_mask)
                    = Len(Encode(new_dataset[i].content, max_length))
               /\ Len(item.attention_mask) = Len(item.input_ids)
               /\ item.labels =
                    [k \in 0..(num_labels - 1) |-> IF k < VecLen(b) THEN b[k] ELSE 0]

\* C11 witness: both datasets have been encoded; dataset A has two rows
\* with different texts and labels, dataset B records with different
\* contents and label vectors.
C11_Witness ==
  /\ \E i, j \in 1..Len(tokenized_dataset.train) :
       /\ dataset.train[i].text # dataset.train[j].text
       /\ tokenized_dataset.train[i].labels # tokenized_dataset.train[j].labels
  /\ CustomDataset_len(custom_dataset) = Len(new_dataset)
  /\ \E i, j \in 1..Len(new_dataset) :
       /\ CustomDataset_getitem(custom_dataset, i - 1).input_ids
            # CustomDataset_getitem(custom_dataset, j - 1).input_ids
       /\ CustomDataset_getitem(custom_dataset, i - 1).labels
            # CustomDataset_getitem(custom_dataset, j - 1).labels

\* The positions of the log that are forward passes.
ForwardPasses == { k \in 1..Len(events) : events[k].op = "forward" }

\* The forward passes the notebook calls itself, outside trainer.train().
TrainingCells == {"train", "train_custom"}

OutsideTraining == { k \in ForwardPasses : events[k].cell \notin TrainingCells }

\* Operation k runs on a model loaded from persisted state after a training
\* step, with no weight update between that load and operation k.
LoadedAfterTraining(k) ==
  \E j \in 1..(k - 1) :
    /\ events[j].op = "load"
    /\ \E t \in 1..(j - 1) : events[t].op = "train"
    /\ \A m \in j..k : events[m].op # "train"

\* The directory the model of a forward pass outside training was loaded from.
LoadedFrom(cell) ==
  IF cell \in {"reload", "accuracy"} THEN fine_tuned_path ELSE checkpoint_path

====
